---- MODULE Spec2Model ----
(***************************************************************************)
(* A model of the daily stock ETL pipeline of stock_etl.py and of its      *)
(* caller scheduler.py: fetch_stock_data, transform_data, setup_database,  *)
(* load_data_to_db and run_etl_pipeline, over the table stock_daily_data   *)
(* and the raw_data snapshot directory.                                    *)
(***************************************************************************)
EXTENDS Integers, Sequences, FiniteSets, TLC

(***************************************************************************)
(* Configuration (stock_etl.py, lines 19-24).                              *)
(***************************************************************************)
SYMBOLS == <<"AAPL", "GOOG", "MSFT">>

Symbols == {SYMBOLS[i] : i \in 1..Len(SYMBOLS)}

(***************************************************************************)
(* Bounds of the model.                                                    *)
(***************************************************************************)
\* pipeline invocations (runs of the module or of the scheduled job)
MaxRuns == 2

\* calendar days the model's clock can reach
MaxDay == 2

\* direct calls of load_data_to_db outside a pipeline run
MaxDirect == 2

\* the second up to which the wall clock can move on between two transforms
MaxClock == 1

Days == 1..MaxDay

(***************************************************************************)
(* The remote API's payload.  A day's bar is a JSON object keyed by the    *)
(* provider's field names; every value is a JSON string.                   *)
(***************************************************************************)
RawKeys == {"1. open", "2. high", "3. low", "4. close", "5. volume"}

RawBar(o, h, l, c, v) ==
    [k \in RawKeys |-> CASE k = "1. open" -> o
                         [] k = "2. high" -> h
                         [] k = "3. low" -> l
                         [] k = "4. close" -> c
                         [] OTHER -> v]

\* The decoded JSON value, when it is an object: does it carry
\* "Information", does it carry "Time Series (Daily)", and that mapping as
\* the sequence of its (date, bar) items in document order.
Body(information, hasSeries, series) ==
    [object |-> TRUE, info |-> information, hasTs |-> hasSeries, ts |-> series]

NoBody == Body(FALSE, FALSE, <<>>)

\* a decoded JSON value that is no container: null, a number, true
BodyScalar == [Body(FALSE, FALSE, <<>>) EXCEPT !.object = FALSE]

\* two days; the second opened at zero
BodyTwoDay ==
    Body(FALSE, TRUE,
         << <<"2024-01-02", RawBar("150.0", "155.0", "149.0", "153.0", "1000")>>,
            <<"2024-01-03", RawBar("0.0", "106.0", "0.0", "105.0", "2000")>> >>)

\* another quote of 2024-01-02, with other prices and volume
BodyOneDay ==
    Body(FALSE, TRUE,
         << <<"2024-01-02", RawBar("100.0", "106.0", "99.0", "105.0", "3000")>> >>)

BodyRateLimit == Body(TRUE, FALSE, <<>>)

BodyNoSeries == Body(FALSE, FALSE, <<>>)

BodyBadPrice ==
    Body(FALSE, TRUE,
         << <<"2024-01-02", RawBar("abc", "155.0", "149.0", "153.0", "1000")>> >>)

BodyBadVolume ==
    Body(FALSE, TRUE,
         << <<"2024-01-02", RawBar("150.0", "155.0", "149.0", "153.0", "n/a")>>,
            <<"2024-01-03", RawBar("100.0", "106.0", "99.0", "105.0", "2000")>> >>)

BodyEmptySeries == Body(FALSE, TRUE, <<>>)

\* a day whose open price is "nan", which the validation takes for a float
\* and pd.to_numeric does not parse, and a day whose volume is written as a
\* float
BodyNanPrice ==
    Body(FALSE, TRUE,
         << <<"2024-01-02", RawBar("nan", "155.0", "149.0", "153.0", "1000")>>,
            <<"2024-01-03", RawBar("100.0", "106.0", "99.0", "105.0", "150.0")>> >>)

\* a day under a key that is no date
BodyBadDate ==
    Body(FALSE, TRUE,
         << <<"not-a-date", RawBar("100.0", "106.0", "99.0", "105.0", "2000")>> >>)

Bodies ==
    {BodyTwoDay, BodyOneDay, BodyRateLimit, BodyNoSeries,
     BodyBadPrice, BodyBadVolume, BodyEmptySeries,
     BodyNanPrice, BodyBadDate, BodyScalar}

\* What requests.get / raise_for_status / response.json() make of one call:
\* a decoded body, or one of the three transport failures.
Response(t, b) == [transport |-> t, body |-> b]

TransportFailures == {"timeout", "http_error", "undecodable"}

Responses ==
    {Response("ok", b) : b \in Bodies}
        \cup {Response(t, NoBody) : t \in TransportFailures}

(***************************************************************************)
(* Parsing of the payload's strings.  A float is <<"real", n>> (the numbers *)
(* of the model are whole), <<"nan", 0>> or <<"inf", sign>>.                *)
(***************************************************************************)
Real(n) == <<"real", n>>

NaN == <<"nan", 0>>

Inf(sign) == <<"inf", sign>>

\* the strings of the model that are written as a float with no fraction
NumericStrings == {"0.0", "99.0", "100.0", "105.0", "106.0", "149.0",
                   "150.0", "153.0", "155.0"}

\* the strings of the model that are written as an integer
IntStrings == {"1000", "2000", "3000", "150", "7"}

\* the strings of the model that float(str) parses, which are those pydantic
\* takes for a float field
FloatStrings == NumericStrings \cup IntStrings \cup {"1e3", "nan", "inf"}

IsFloatString(s) == s \in FloatStrings

\* the strings of the model that pd.to_numeric parses: digits, an exponent
\* and the spellings of infinity, but not "nan"
ParsedStrings == NumericStrings \cup IntStrings \cup {"1e3", "inf"}

IsParsedString(s) == s \in ParsedStrings

\* the float64 pd.to_numeric makes of a string it parses
ToFloat(s) ==
    CASE s = "0.0" -> Real(0)
      [] s = "99.0" -> Real(99)
      [] s = "100.0" -> Real(100)
      [] s = "105.0" -> Real(105)
      [] s = "106.0" -> Real(106)
      [] s = "149.0" -> Real(149)
      [] s = "150.0" -> Real(150)
      [] s = "153.0" -> Real(153)
      [] s = "155.0" -> Real(155)
      [] s = "1000" -> Real(1000)
      [] s = "2000" -> Real(2000)
      [] s = "3000" -> Real(3000)
      [] s = "150" -> Real(150)
      [] s = "7" -> Real(7)
      [] s = "1e3" -> Real(1000)
      [] s = "inf" -> Inf(1)

\* the strings pydantic takes for an int field: an integer, or a float with
\* no fraction; not an exponent, "nan" or "inf"
IsIntString(s) == s \in IntStrings \cup NumericStrings

\* the keys pd.to_datetime makes a date of
DateStrings == {"2024-01-02", "2024-01-03"}

IsDateString(s) == s \in DateStrings

\* pd.to_datetime(...).dt.date, as (year, month, day)
ToDate(s) ==
    CASE s = "2024-01-02" -> <<2024, 1, 2>>
      [] s = "2024-01-03" -> <<2024, 1, 3>>

(***************************************************************************)
(* Validation: the pydantic models StockDataPoint and TimeSeriesData.      *)
(***************************************************************************)
\* StockDataPoint: four floats and one int, each required
StockDataPoint(bar) ==
    /\ IsFloatString(bar["1. open"])
    /\ IsFloatString(bar["2. high"])
    /\ IsFloatString(bar["3. low"])
    /\ IsFloatString(bar["4. close"])
    /\ IsIntString(bar["5. volume"])

\* TimeSeriesData: the required field 'Time Series (Daily)', a dict (empty
\* or not) whose every value is a StockDataPoint
TimeSeriesData(body) ==
    /\ body.hasTs
    /\ \A i \in 1..Len(body.ts) : StockDataPoint(body.ts[i][2])

(***************************************************************************)
(* Extract: how one call of fetch_stock_data ends, given what the request  *)
(* produced.                                                               *)
(*   "saved"            the snapshot is written and its path returned      *)
(*   "RequestException" caught, None returned                              *)
(*   "ValidationError"  caught, None returned                              *)
(*   "RuntimeError"     raised by the rate-limit check; no except clause   *)
(*                      of fetch_stock_data names it, so it leaves the     *)
(*                      function                                           *)
(*   "TypeError"        raised by `"Information" in data` when data is no  *)
(*                      container; not caught either                       *)
(***************************************************************************)
FetchOutcome(resp) ==
    IF resp.transport # "ok" THEN "RequestException"
    ELSE IF ~resp.body.object THEN "TypeError"
    ELSE IF resp.body.info THEN "RuntimeError"
    ELSE IF ~TimeSeriesData(resp.body) THEN "ValidationError"
    ELSE "saved"

\* A file of raw_data: "absent", "json" with the body it holds, or "garbage"
\* (bytes that are no JSON).
File(k, b) == [kind |-> k, body |-> b]

NoFile == File("absent", NoBody)

\* an outputsize decided by the glob *.json, which finds any symbol's file
OutputSizeAnySymbol(snaps, symbol) ==
    IF \E p \in DOMAIN snaps : snaps[p].kind # "absent"
    THEN "compact" ELSE "full"

\* outputsize: 'compact' if the glob {symbol}_*.json finds a file, else 'full'
OutputSize(snaps, symbol) ==
    IF \E d \in Days : snaps[<<symbol, d>>].kind # "absent"
    THEN "compact" ELSE "full"

(***************************************************************************)
(* Transform: transform_data.                                              *)
(***************************************************************************)
\* a volume cell after pd.to_numeric(errors='coerce').astype('Int64'): the
\* number, or NA for a string pd.to_numeric does not parse
CoerceVolume(s) ==
    IF IsParsedString(s) /\ ToFloat(s)[1] = "real"
    THEN <<"int", ToFloat(s)[2]>> ELSE <<"NA", 0>>

\* ((close - open) / open) * 100 on float64, in hundredths of a percent:
\* division by zero gives inf, -inf or NaN and raises nothing, and so do
\* NaN and inf among the operands
DailyChange(open, close) ==
    IF open[1] = "nan" \/ close[1] = "nan" THEN NaN
    ELSE IF open[1] = "inf" THEN NaN
    ELSE IF close[1] = "inf"
         THEN Inf(IF open[2] >= 0 THEN close[2] ELSE -close[2])
    ELSE IF open[2] # 0
         THEN Real(((close[2] - open[2]) * 10000) \div open[2])
    ELSE IF close[2] > 0 THEN Inf(1)
    ELSE IF close[2] < 0 THEN Inf(-1)
    ELSE NaN

TransformRow(item, symbol, stamp) ==
    LET bar == item[2]
        o == ToFloat(bar["1. open"])
        c == ToFloat(bar["4. close"])
    IN  [symbol |-> symbol,
         date |-> ToDate(item[1]),
         open |-> o,
         high |-> ToFloat(bar["2. high"]),
         low |-> ToFloat(bar["3. low"]),
         close |-> c,
         volume |-> CoerceVolume(bar["5. volume"]),
         daily_change_percentage |-> DailyChange(o, c),
         extraction_timestamp |-> stamp]

Frame(r, e, rs) == [raised |-> r, error |-> e, rows |-> rs]

\* what astype('Int64') raises on an infinite volume: TypeError in some
\* versions of pandas, OverflowError in others; the repository pins none
Int64CastRaises == {"TypeError", "OverflowError"}

\* The DataFrame transform_data returns for the file at file_path, or the
\* exception that leaves it.  FileNotFoundError (no file), TypeError (the
\* JSON is no object) and KeyError (no time series; no column 'open' in the
\* frame of an empty one) are caught and give the empty frame.  The
\* ValueError of json.load on a file that is not JSON, of pd.to_numeric on a
\* price it does not parse ("nan" among them, which the validation lets
\* through) and of pd.to_datetime on a key that is no date are not caught.  An infinite volume cannot be cast to Int64: `cast` is
\* the exception the installed pandas raises for it, of which TypeError is
\* caught and OverflowError is not.
transform_data(file, symbol, stamp, cast) ==
    IF file.kind = "absent" THEN Frame(FALSE, TRUE, <<>>)
    ELSE IF file.kind = "garbage" THEN Frame(TRUE, TRUE, <<>>)
    ELSE IF ~file.body.object THEN Frame(FALSE, TRUE, <<>>)
    ELSE IF ~file.body.hasTs THEN Frame(FALSE, TRUE, <<>>)
    ELSE IF Len(file.body.ts) = 0 THEN Frame(FALSE, TRUE, <<>>)
    ELSE IF \E i \in 1..Len(file.body.ts) :
               \E k \in RawKeys \ {"5. volume"} :
                   ~IsParsedString(file.body.ts[i][2][k])
         THEN Frame(TRUE, TRUE, <<>>)
    ELSE IF \E i \in 1..Len(file.body.ts) :
               /\ IsParsedString(file.body.ts[i][2]["5. volume"])
               /\ ToFloat(file.body.ts[i][2]["5. volume"])[1] = "inf"
         THEN Frame(cast # "TypeError", TRUE, <<>>)
    ELSE IF \E i \in 1..Len(file.body.ts) : ~IsDateString(file.body.ts[i][1])
         THEN Frame(TRUE, TRUE, <<>>)
    ELSE Frame(FALSE, FALSE,
               [i \in 1..Len(file.body.ts) |->
                    TransformRow(file.body.ts[i], symbol, stamp)])

(***************************************************************************)
(* Load: the table stock_daily_data and load_data_to_db.  The database is  *)
(* the records of the table, in insertion order, and the counter that      *)
(* AUTOINCREMENT keeps in sqlite_sequence.                                 *)
(***************************************************************************)
Database(t, n) == [table |-> t, seq |-> n]

\* can sqlite3 bind the cell: pandas' NA of an Int64 column is no type
\* sqlite3 adapts
Bindable(row) == row.volume[1] = "int"

\* the value sqlite3 stores for a float: NaN is stored as NULL
StoredReal(x) == IF x[1] = "nan" THEN <<"null", 0>> ELSE x

\* the value sqlite3 stores for a cell of the Int64 column: a numpy.int64 is
\* no int to sqlite3, which binds it through the buffer protocol as the
\* bytes of the number
StoredInt(x) == IF x[1] = "int" THEN <<"blob", x[2]>> ELSE <<"null", 0>>

\* the text sqlite3's adapter makes of a datetime.date
IsoFormat(d) ==
    CASE d = <<2024, 1, 2>> -> "2024-01-02"
      [] d = <<2024, 1, 3>> -> "2024-01-03"

\* a constraint UNIQUE(symbol, date, open_price)
ConflictsOnValues(table, row) ==
    \E i \in 1..Len(table) :
        /\ table[i].symbol = row.symbol
        /\ table[i].date = IsoFormat(row.date)
        /\ table[i].open_price = StoredReal(row.open)

\* a constraint UNIQUE(symbol, date, extraction_timestamp)
ConflictsStamped(table, row) ==
    \E i \in 1..Len(table) :
        /\ table[i].symbol = row.symbol
        /\ table[i].date = IsoFormat(row.date)
        /\ table[i].extraction_timestamp = row.extraction_timestamp

\* a constraint UNIQUE(symbol)
ConflictsOnSymbol(table, row) ==
    \E i \in 1..Len(table) : table[i].symbol = row.symbol

\* UNIQUE(symbol, date)
Conflicts(table, row) ==
    \E i \in 1..Len(table) :
        table[i].symbol = row.symbol /\ table[i].date = IsoFormat(row.date)

\* the record an INSERT makes of a row, with the id AUTOINCREMENT gives it
Record(seq, row) ==
    [id |-> seq + 1,
     symbol |-> row.symbol,
     date |-> IsoFormat(row.date),
     open_price |-> StoredReal(row.open),
     high_price |-> StoredReal(row.high),
     low_price |-> StoredReal(row.low),
     close_price |-> StoredReal(row.close),
     volume |-> StoredInt(row.volume),
     daily_change_percentage |-> StoredReal(row.daily_change_percentage),
     extraction_timestamp |-> row.extraction_timestamp]

\* the NOT NULL of the four prices and of the volume (the symbol, date and
\* timestamp of a frame are never null)
NotNull(rec) ==
    /\ rec.open_price[1] # "null"
    /\ rec.high_price[1] # "null"
    /\ rec.low_price[1] # "null"
    /\ rec.close_price[1] # "null"
    /\ rec.volume[1] # "null"

\* a plain INSERT that ignores the constraint
InsertAlways(db, row) ==
    Database(Append(db.table, Record(db.seq, row)), db.seq + 1)

\* an INSERT OR REPLACE: the row takes the place of the record of its key
InsertOrReplace(db, row) ==
    IF ~NotNull(Record(db.seq, row)) THEN Database(db.table, db.seq + 1)
    ELSE IF Conflicts(db.table, row)
    THEN Database([i \in 1..Len(db.table) |->
                      IF /\ db.table[i].symbol = row.symbol
                         /\ db.table[i].date = IsoFormat(row.date)
                      THEN Record(db.seq, row)
                      ELSE db.table[i]],
                  db.seq + 1)
    ELSE Database(Append(db.table, Record(db.seq, row)), db.seq + 1)

\* one INSERT OR IGNORE: the row is skipped when its (symbol, date) is taken
\* or when it breaks NOT NULL; skipped or not, it uses up an id
InsertOrIgnore(db, row) ==
    IF Conflicts(db.table, row) \/ ~NotNull(Record(db.seq, row))
    THEN Database(db.table, db.seq + 1)
    ELSE Database(Append(db.table, Record(db.seq, row)), db.seq + 1)

\* sqlite3_changes() after the INSERT OR IGNORE of a row: 1 for a row that
\* was inserted, 0 for one that was skipped
Changes(db, row) ==
    IF Conflicts(db.table, row) \/ ~NotNull(Record(db.seq, row)) THEN 0 ELSE 1

\* a cursor: the database it works on and its rowcount
Cursor(db, n) == [db |-> db, rowcount |-> n]

\* cursor.executemany(insert_query, rows): the statement is run for each row
\* in turn and the changes of each run are added to cursor.rowcount
RECURSIVE ExecuteMany(_, _)
ExecuteMany(cursor, rows) ==
    IF rows = <<>> THEN cursor
    ELSE ExecuteMany(Cursor(InsertOrIgnore(cursor.db, Head(rows)),
                            cursor.rowcount + Changes(cursor.db, Head(rows))),
                     Tail(rows))

Loaded(r, d, n) == [raised |-> r, db |-> d, rowcount |-> n]

\* a loader that reports the number of rows submitted
LoadReportsSubmitted(db, exists, rows) ==
    IF rows = <<>> THEN Loaded(FALSE, db, -1)
    ELSE IF ~exists THEN Loaded(TRUE, db, -1)
    ELSE IF \E i \in 1..Len(rows) : ~Bindable(rows[i])
         THEN Loaded(TRUE, db, -1)
    ELSE Loaded(FALSE, ExecuteMany(Cursor(db, 0), rows).db, Len(rows))

\* load_data_to_db(df) on the database: the database after the call, whether
\* an exception left the call, and cursor.rowcount (-1 when nothing ran).
\* An exception inside executemany leaves before conn.commit(), so nothing
\* of the call is kept.
load_data_to_db(db, exists, rows) ==
    IF rows = <<>> THEN Loaded(FALSE, db, -1)
    ELSE IF ~exists THEN Loaded(TRUE, db, -1)
    ELSE IF \E i \in 1..Len(rows) : ~Bindable(rows[i])
         THEN Loaded(TRUE, db, -1)
    ELSE LET cursor == ExecuteMany(Cursor(db, 0), rows)
         IN  Loaded(FALSE, cursor.db, cursor.rowcount)

(***************************************************************************)
(* State.                                                                  *)
(***************************************************************************)
VARIABLES
    API_KEY,        \* is ALPHA_VANTAGE_API_KEY set in the environment
    api,            \* the remote API: live, or a mock with fixed responses
    tableExists,    \* does stock_data.db hold the table stock_daily_data
    table,          \* the records of stock_daily_data, in insertion order
    sqlite_sequence,\* the AUTOINCREMENT counter of the table
    snapshots,      \* raw_data: (symbol, day) -> the file {symbol}_{day}.json
    today,          \* the calendar day
    clock,          \* the wall clock that stamps a transform
    pc,             \* where the current invocation stands
    idx,            \* position of the loop of run_etl_pipeline in SYMBOLS
    raw_file_path,  \* what fetch_stock_data returned: <<symbol, day>>, <<>> for None
    df,             \* the rows transform_data returned
    runs,           \* invocations started so far
    directs,        \* direct calls of load_data_to_db so far
    outcome,        \* this invocation: how each symbol's processing ended
    lastFetch,      \* the latest call of fetch_stock_data, if the latest step
    lastLoad,       \* the latest call of load_data_to_db, if the latest step
    everSaved,      \* history: the symbols of which a fetch has succeeded
    validated,      \* history: the (symbol, date) of every response saved
    everAborted     \* history: an exception has ended an invocation

vars == <<API_KEY, api, tableExists, table, sqlite_sequence, snapshots, today,
          clock, pc, idx, raw_file_path, df, runs, directs, outcome, lastFetch,
          lastLoad, everSaved, validated, everAborted>>

Paths == Symbols \X Days

Pending == [s \in Symbols |-> "pending"]

NoFetch == [called |-> FALSE, symbol |-> "", outputsize |-> "", out |-> "",
            resp |-> Response("none", NoBody), before |-> NoFile]

\* the record of a call fetch_stock_data(symbol) that requested size and
\* got resp, with the symbol's snapshot of the day as it was before
Fetched(symbol, size, resp, file) ==
    [called |-> TRUE, symbol |-> symbol, outputsize |-> size,
     out |-> FetchOutcome(resp), resp |-> resp, before |-> file]

NoCall == [called |-> FALSE, by |-> "", rows |-> <<>>, before |-> <<>>,
           raised |-> FALSE, rowcount |-> -1, repeat |-> FALSE]

\* the record of a call load_data_to_db(rows) by the pipeline or by a direct
\* caller, that returned res; repeat: the call before it, with nothing in
\* between, had the same rows
Call(who, rows, before, res) ==
    [called |-> TRUE, by |-> who, rows |-> rows, before |-> before, raised |-> res.raised,
     rowcount |-> res.rowcount,
     repeat |-> lastLoad.called /\ lastLoad.rows = rows]

\* the (symbol, date) keys of the days of a body
Keys(symbol, body) == {<<symbol, body.ts[i][1]>> : i \in 1..Len(body.ts)}

\* What a request can produce.  A request without apikey is answered with
\* an error message, never with a time series.
Served(key) ==
    IF key THEN Responses
    ELSE {Response("ok", BodyNoSeries)}
             \cup {Response(t, NoBody) : t \in TransportFailures}

\* The remote API: the live service, whose answer to a request is any of
\* Served, or a mock that answers a symbol's every request alike.
Live == [fixed |-> FALSE, resp |-> [s \in Symbols |-> Response("none", NoBody)]]

Mock(f) == [fixed |-> TRUE, resp |-> f]

Answers(symbol) ==
    IF api.fixed THEN {api.resp[symbol]} ELSE Served(API_KEY)

Init ==
    /\ API_KEY \in BOOLEAN
    /\ api \in {Live} \cup {Mock(f) : f \in [Symbols -> Served(API_KEY)]}
    /\ tableExists = FALSE
    /\ table = <<>>
    /\ sqlite_sequence = 0
    /\ snapshots = [p \in Paths |-> NoFile]
    /\ today = 1
    /\ clock = 0
    /\ pc = "idle"
    /\ idx = 1
    /\ raw_file_path = <<>>
    /\ df = <<>>
    /\ runs = 0
    /\ directs = 0
    /\ outcome = Pending
    /\ lastFetch = NoFetch
    /\ lastLoad = NoCall
    /\ everSaved = {}
    /\ validated = {}
    /\ everAborted = FALSE

\* no invocation is under way
Quiescent == pc \in {"idle", "done", "aborted", "config_error"}

(***************************************************************************)
(* Invocations.                                                            *)
(***************************************************************************)
\* a new process starts at `to`; it reads no clock
Begin(to) ==
    /\ runs' = runs + 1
    /\ pc' = to
    /\ idx' = 1
    /\ raw_file_path' = <<>>
    /\ df' = <<>>
    /\ outcome' = Pending
    /\ lastFetch' = NoFetch
    /\ lastLoad' = NoCall
    /\ UNCHANGED <<API_KEY, api, tableExists, table, sqlite_sequence, snapshots,
                   today, clock, directs, everSaved, validated, everAborted>>

\* python stock_etl.py: the __main__ block raises ValueError when the key
\* is not set and calls run_etl_pipeline otherwise
Main ==
    /\ Quiescent
    /\ runs < MaxRuns
    /\ Begin(IF API_KEY THEN "setup" ELSE "config_error")

\* scheduler.py: the daily job is run_etl_pipeline itself
Scheduled ==
    /\ Quiescent
    /\ runs < MaxRuns
    /\ Begin("setup")

\* Midnight passes.  fetch_stock_data reads the date at each call, so the day
\* can change between two fetches of one run.  The time of a transform has
\* its date in it, so the wall clock moves on with the day.  (Days before
\* the first invocation leave no trace, so the calendar starts with it.)
NextDay ==
    /\ runs > 0
    /\ today < MaxDay
    /\ today' = today + 1
    /\ clock' = clock + 1
    /\ UNCHANGED <<API_KEY, api, tableExists, table, sqlite_sequence, snapshots,
                   pc, idx, raw_file_path, df, runs, directs, outcome,
                   lastFetch, lastLoad, everSaved, validated, everAborted>>

(***************************************************************************)
(* run_etl_pipeline.                                                       *)
(***************************************************************************)
\* the loop goes to its next symbol, or the run ends
Advance ==
    /\ raw_file_path' = <<>>
    /\ df' = <<>>
    /\ IF idx < Len(SYMBOLS)
       THEN idx' = idx + 1 /\ pc' = "fetch"
       ELSE idx' = idx /\ pc' = "done"

\* setup_database(), first statement of run_etl_pipeline
Setup ==
    /\ pc = "setup"
    /\ tableExists' = TRUE
    /\ pc' = "fetch"
    /\ UNCHANGED <<API_KEY, api, table, sqlite_sequence, snapshots, today,
                   clock, idx, raw_file_path, df, runs, directs, outcome,
                   lastFetch, lastLoad, everSaved, validated, everAborted>>

\* a snapshot named after the symbol alone
SnapshotPathUndated(symbol, day) == <<symbol, 1>>

\* file_path: raw_data/{symbol}_{today}.json
SnapshotPath(symbol, day) == <<symbol, day>>

\* the exceptions that leave fetch_stock_data
FetchRaises == {"RuntimeError", "TypeError"}

\* raw_file_path = fetch_stock_data(symbol)
Fetch ==
    /\ pc = "fetch"
    /\ \E resp \in Answers(SYMBOLS[idx]) :
        LET symbol == SYMBOLS[idx]
            out == FetchOutcome(resp)
        IN  /\ lastFetch' = Fetched(symbol, OutputSize(snapshots, symbol), resp,
                                    snapshots[SnapshotPath(symbol, today)])
            /\ outcome' = [outcome EXCEPT ![symbol] = out]
            /\ everSaved' = IF out = "saved" THEN everSaved \cup {symbol}
                            ELSE everSaved
            /\ validated' = IF out = "saved"
                            THEN validated \cup Keys(symbol, resp.body)
                            ELSE validated
            /\ everAborted' = (everAborted \/ out \in FetchRaises)
            /\ IF out = "saved"
               THEN /\ snapshots' =
                       [snapshots EXCEPT ![SnapshotPath(symbol, today)] =
                            File("json", resp.body)]
                    /\ raw_file_path' = SnapshotPath(symbol, today)
                    /\ pc' = "transform"
                    /\ UNCHANGED <<idx, df>>
               ELSE IF out \in FetchRaises
               THEN /\ pc' = "aborted"
                    /\ UNCHANGED <<snapshots, raw_file_path, idx, df>>
               ELSE /\ Advance
                    /\ UNCHANGED snapshots
    /\ lastLoad' = NoCall
    /\ UNCHANGED <<API_KEY, api, tableExists, table, sqlite_sequence, today,
                   clock, runs, directs>>

\* the readings datetime.now() can give at a transform: the second of the
\* reading before it, or a later one
Now == {clock} \cup (IF clock < MaxClock THEN {clock + 1} ELSE {})

\* transformed_df = transform_data(raw_file_path, symbol)
Transform ==
    /\ pc = "transform"
    /\ \E stamp \in Now, cast \in Int64CastRaises :
        LET symbol == SYMBOLS[idx]
            frame == transform_data(snapshots[raw_file_path], symbol, stamp,
                                    cast)
        IN  /\ clock' = stamp
            /\ everAborted' = (everAborted \/ frame.raised)
            /\ IF frame.raised
               THEN /\ pc' = "aborted"
                    /\ outcome' = [outcome EXCEPT ![symbol] = "TransformRaised"]
                    /\ UNCHANGED df
               ELSE /\ pc' = "load"
                    /\ df' = frame.rows
                    /\ outcome' = [outcome EXCEPT ![symbol] =
                                       IF frame.error THEN "TransformError"
                                       ELSE "transformed"]
    /\ lastFetch' = NoFetch
    /\ UNCHANGED <<API_KEY, api, tableExists, table, sqlite_sequence, snapshots,
                   today, idx, raw_file_path, runs, directs, lastLoad,
                   everSaved, validated>>

\* load_data_to_db(transformed_df)
Load ==
    /\ pc = "load"
    /\ LET symbol == SYMBOLS[idx]
           res == load_data_to_db(Database(table, sqlite_sequence),
                                  tableExists, df)
       IN  /\ lastLoad' = Call("pipeline", df, table, res)
           /\ table' = res.db.table
           /\ sqlite_sequence' = res.db.seq
           /\ everAborted' = (everAborted \/ res.raised)
           /\ IF res.raised
              THEN /\ pc' = "aborted"
                   /\ outcome' = [outcome EXCEPT ![symbol] = "LoadRaised"]
                   /\ UNCHANGED <<idx, raw_file_path, df>>
              ELSE /\ Advance
                   /\ outcome' = [outcome EXCEPT ![symbol] =
                                      IF df = <<>> THEN "nothing" ELSE "loaded"]
    /\ UNCHANGED <<API_KEY, api, tableExists, snapshots, today, clock, runs,
                   directs, lastFetch, everSaved, validated>>

(***************************************************************************)
(* The loader called on its own, between invocations.                      *)
(***************************************************************************)
\* setup_database()
DirectSetup ==
    /\ Quiescent
    /\ tableExists' = TRUE
    /\ lastLoad' = NoCall
    /\ UNCHANGED <<API_KEY, api, table, sqlite_sequence, snapshots, today,
                   clock, pc, idx, raw_file_path, df, runs, directs, outcome,
                   lastFetch, everSaved, validated, everAborted>>

\* the frames a caller hands to load_data_to_db: what transform_data makes
\* of a snapshot, the empty frame among them
DirectFrames ==
    {transform_data(File("json", b), SYMBOLS[1], 0, cast).rows :
        b \in {BodyTwoDay, BodyBadVolume, BodyEmptySeries},
        cast \in Int64CastRaises}

\* load_data_to_db(rows)
DirectLoad ==
    /\ Quiescent
    /\ directs < MaxDirect
    /\ directs' = directs + 1
    /\ \E rows \in DirectFrames :
        LET res == load_data_to_db(Database(table, sqlite_sequence),
                                   tableExists, rows)
        IN  /\ lastLoad' = Call("direct", rows, table, res)
            /\ table' = res.db.table
            /\ sqlite_sequence' = res.db.seq
    /\ UNCHANGED <<API_KEY, api, tableExists, snapshots, today, clock, pc, idx,
                   raw_file_path, df, runs, outcome, lastFetch, everSaved,
                   validated, everAborted>>

(***************************************************************************)
(* The snapshot directory is shared with the world: between the fetch and  *)
(* the transform of a symbol the file just written may be removed, or      *)
(* overwritten with bytes that are no JSON or with JSON that has no time   *)
(* series.                                                                 *)
(***************************************************************************)
Damaged ==
    {NoFile, File("garbage", NoBody), File("json", BodyNoSeries)}

DiskFault ==
    /\ pc = "transform"
    /\ snapshots[raw_file_path] \notin Damaged
    /\ \E file \in Damaged :
        snapshots' = [snapshots EXCEPT ![raw_file_path] = file]
    /\ UNCHANGED <<API_KEY, api, tableExists, table, sqlite_sequence, today,
                   clock, pc, idx, raw_file_path, df, runs, directs, outcome,
                   lastFetch, lastLoad, everSaved, validated, everAborted>>

(***************************************************************************)
(* The store can be out of reach (the file cannot be opened or created, or *)
(* another connection holds its lock): sqlite3 raises OperationalError,    *)
(* which neither function nor run_etl_pipeline catches.                     *)
(***************************************************************************)
\* setup_database() when the store is out of reach
SetupUnavailable ==
    /\ pc = "setup"
    /\ pc' = "aborted"
    /\ everAborted' = TRUE
    /\ UNCHANGED <<API_KEY, api, tableExists, table, sqlite_sequence, snapshots,
                   today, clock, idx, raw_file_path, df, runs, directs, outcome,
                   lastFetch, lastLoad, everSaved, validated>>

\* load_data_to_db(transformed_df) when the store is out of reach: the empty
\* frame returns before the store is touched, any other frame raises before
\* conn.commit()
LoadUnavailable ==
    /\ pc = "load"
    /\ df # <<>>
    /\ lastLoad' = Call("pipeline", df, table,
                        Loaded(TRUE, Database(table, sqlite_sequence), -1))
    /\ pc' = "aborted"
    /\ everAborted' = TRUE
    /\ outcome' = [outcome EXCEPT ![SYMBOLS[idx]] = "OperationalError"]
    /\ UNCHANGED <<API_KEY, api, tableExists, table, sqlite_sequence, snapshots,
                   today, clock, idx, raw_file_path, df, runs, directs,
                   lastFetch, everSaved, validated>>

\* the invocations, as the days and the seconds pass
Next ==
    \/ Main
    \/ Scheduled
    \/ NextDay
    \/ Setup
    \/ Fetch
    \/ Transform
    \/ Load

Spec == Init /\ [][Next]_vars

\* the API is a mock that answers a symbol's every request alike
InitFixed == Init /\ api.fixed

\* the invocations, and the loader called on its own between them
NextLoader ==
    \/ Main
    \/ Scheduled
    \/ NextDay
    \/ Setup
    \/ Fetch
    \/ Transform
    \/ Load
    \/ DirectSetup
    \/ DirectLoad

SpecLoader == InitFixed /\ [][NextLoader]_vars

\* the invocations, on a disk that can fail
NextFault ==
    \/ Main
    \/ Scheduled
    \/ NextDay
    \/ Setup
    \/ Fetch
    \/ Transform
    \/ Load
    \/ DiskFault

SpecFault == InitFixed /\ [][NextFault]_vars

\* the invocations, on a store that can be out of reach
NextStore ==
    \/ Main
    \/ Scheduled
    \/ NextDay
    \/ Setup
    \/ SetupUnavailable
    \/ Fetch
    \/ Transform
    \/ Load
    \/ LoadUnavailable

SpecStore == InitFixed /\ [][NextStore]_vars

(***************************************************************************)
(* Properties of the loader.                                               *)
(***************************************************************************)
\* C1: loader idempotence.  Whenever load_data_to_db is called with the rows
\* of the call just before it, the table is left as that first call left it
\* and the call inserts no row.
C1_LoadTwice ==
    (lastLoad.called /\ lastLoad.repeat)
        => (table = lastLoad.before /\ lastLoad.rowcount <= 0)

\* a second call with rows the first call stored, which reports 0
C1_Witness ==
    /\ lastLoad.called /\ lastLoad.repeat
    /\ lastLoad.rows # <<>>
    /\ ~lastLoad.raised
    /\ lastLoad.rowcount = 0
    /\ \A i \in 1..Len(lastLoad.rows) : Conflicts(table, lastLoad.rows[i])

\* C2: uniqueness.  In every state reached by setup_database, load_data_to_db
\* and run_etl_pipeline calls, no two records of stock_daily_data have the
\* same (symbol, date).
C2_Unique ==
    \A i, j \in 1..Len(table) :
        (table[i].symbol = table[j].symbol /\ table[i].date = table[j].date)
            => i = j

\* a run loads rows of which some were stored by a direct call before
C2_Witness ==
    /\ lastLoad.called /\ lastLoad.by = "pipeline"
    /\ directs > 0
    /\ ~lastLoad.raised
    /\ lastLoad.rowcount >= 0
    /\ lastLoad.rowcount < Len(lastLoad.rows)
    /\ Len(table) >= 2

\* the rows of a call, and the records they meet, with another content
Clash(rows, before) ==
    \E i \in 1..Len(rows) : \E j \in 1..Len(before) :
        /\ before[j].symbol = rows[i].symbol
        /\ before[j].date = IsoFormat(rows[i].date)
        /\ before[j].open_price # StoredReal(rows[i].open)
        /\ before[j].volume # StoredInt(rows[i].volume)
        /\ before[j].extraction_timestamp # rows[i].extraction_timestamp

\* C9: no update, no delete.  Every step keeps every record of the table,
\* with its id and all its fields, where it is; and a call of
\* load_data_to_db on the existing table whose rows can all be bound raises
\* nothing, whatever records its rows meet.
C9_NoUpdateNoDelete ==
    [][/\ \A i \in 1..Len(table) : i <= Len(table') /\ table'[i] = table[i]
       /\ (/\ lastLoad'.called
           /\ lastLoad' # lastLoad
           /\ tableExists
           /\ \A i \in 1..Len(lastLoad'.rows) : Bindable(lastLoad'.rows[i]))
              => ~lastLoad'.raised]_vars

\* a call whose row met a record of its key with other prices, volume and
\* timestamp; the record is as it was
C9_Witness ==
    /\ lastLoad.called
    /\ ~lastLoad.raised
    /\ Clash(lastLoad.rows, lastLoad.before)
    /\ \A j \in 1..Len(lastLoad.before) : table[j] = lastLoad.before[j]

(***************************************************************************)
(* Properties of an invocation.                                            *)
(***************************************************************************)
\* the records of the table for every day of a snapshot's series
Stored(symbol, file) ==
    \A i \in 1..Len(file.body.ts) :
        \E j \in 1..Len(table) :
            /\ table[j].symbol = symbol
            /\ table[j].date = file.body.ts[i][1]

\* C3: transport errors are isolated.  In a run in which the fetch of a
\* symbol failed with a transport error, fetch_stock_data returned None for
\* it, the run is not aborted, and once it is done every symbol whose fetch
\* succeeded has its rows stored.
C3_TransportIsolation ==
    (\E s \in Symbols : outcome[s] = "RequestException")
        => /\ pc # "aborted"
           /\ (lastFetch.called /\ lastFetch.out = "RequestException")
                 => raw_file_path = <<>>
           /\ pc = "done" =>
                 \A t \in Symbols :
                     outcome[t] = "loaded" =>
                         \E d \in Days : /\ snapshots[<<t, d>>].kind = "json"
                                         /\ Stored(t, snapshots[<<t, d>>])

\* C4: a rate-limit message is isolated.  The fetch that received it returns
\* no path, and the run is not aborted: it goes on to the remaining symbols
\* and completes.
C4_RateLimitIsolation ==
    /\ (lastFetch.called /\ lastFetch.out = "RuntimeError")
          => raw_file_path = <<>>
    /\ \A s \in Symbols : outcome[s] = "RuntimeError" => pc # "aborted"

\* a price string that stands for a number
DenotesNumber(s) == IsFloatString(s) /\ s # "nan"

\* a response that is decoded and is no rate-limit message, and that has no
\* time series or has a price that is no number
Rejected(resp) ==
    /\ resp.transport = "ok"
    /\ ~resp.body.info
    /\ \/ ~resp.body.hasTs
       \/ \E i \in 1..Len(resp.body.ts) :
              \E k \in RawKeys \ {"5. volume"} :
                  ~DenotesNumber(resp.body.ts[i][2][k])

\* C5: validation rejection.  A fetch whose response lacks the time series
\* or has a non-numeric price ends in the caught ValidationError: it writes
\* no snapshot, changes no record, returns None so that neither transform nor
\* load runs for the symbol, and the loop goes to its next symbol (or the
\* run is done).
C5_ValidationRejection ==
    [][(/\ pc = "fetch"
        /\ lastFetch'.called /\ lastFetch' # lastFetch
        /\ Rejected(lastFetch'.resp))
          => /\ lastFetch'.out = "ValidationError"
             /\ snapshots' = snapshots
             /\ table' = table
             /\ raw_file_path' = <<>>
             /\ df' = <<>>
             /\ pc' = IF idx < Len(SYMBOLS) THEN "fetch" ELSE "done"
             /\ idx' = IF idx < Len(SYMBOLS) THEN idx + 1 ELSE idx]_vars

\* the table has a record of the key with a null volume
NullVolume(symbol, date) ==
    \E j \in 1..Len(table) :
        /\ table[j].symbol = symbol
        /\ table[j].date = date
        /\ table[j].volume = <<"null", 0>>

\* C6: volume coercion.  A day whose volume is no integer is stored with a
\* null volume: once the symbol of such a response has been dealt with, and
\* once a frame with such a row has been loaded, the record is in the table
\* and nothing was raised.
C6_VolumeCoercion ==
    /\ (lastFetch.called /\ lastFetch.resp.body = BodyBadVolume)
          => NullVolume(lastFetch.symbol, "2024-01-02")
    /\ (lastLoad.called /\ tableExists
            /\ \E i \in 1..Len(lastLoad.rows) : lastLoad.rows[i].volume[1] = "NA")
          => /\ ~lastLoad.raised
             /\ \A i \in 1..Len(lastLoad.rows) :
                    lastLoad.rows[i].volume[1] = "NA" =>
                        NullVolume(lastLoad.rows[i].symbol,
                                   IsoFormat(lastLoad.rows[i].date))

\* C7: a missing credential is fatal before the run.  Without the key no
\* invocation processes a symbol: none is fetched, no snapshot is written
\* and no invocation reaches its end.
C7_MissingKeyFatal ==
    ~API_KEY => /\ \A s \in Symbols : outcome[s] = "pending"
                /\ ~lastFetch.called
                /\ \A p \in Paths : snapshots[p] = NoFile
                /\ pc # "done"

\* C8: transform failures are isolated.  When transform_data is called on a
\* snapshot that is missing, is no JSON or has no time series, it returns
\* the empty frame: the run goes on to the (empty) load of the symbol.
C8_TransformIsolation ==
    [][(/\ pc = "transform" /\ pc' # "transform"
        /\ snapshots[raw_file_path] \in Damaged)
          => (pc' = "load" /\ df' = <<>>)]_vars

\* C10: re-run idempotence.  When the API answers every request of a symbol
\* alike, no step of a second or later invocation changes the table, and
\* each of its loads reports no inserted row.
C10_RerunInsertsNothing ==
    [][(api.fixed /\ runs >= 2 /\ pc \in {"setup", "fetch", "transform", "load"})
          => /\ table' = table
             /\ pc = "load" => lastLoad'.rowcount <= 0]_vars

\* the second run of the same day, on the responses of the first, has
\* loaded all three symbols; its last load had rows and inserted none
C10_Witness ==
    /\ api.fixed
    /\ runs = 2 /\ today = 1
    /\ pc = "done"
    /\ \A s \in Symbols : outcome[s] = "loaded"
    /\ lastLoad.called /\ lastLoad.by = "pipeline"
    /\ lastLoad.rows # <<>>
    /\ lastLoad.rowcount = 0
    /\ \E j \in 1..Len(table) : table[j].extraction_timestamp # clock

(***************************************************************************)
(* Properties of the report of the loader.                                 *)
(***************************************************************************)
\* C11: reported insert count.  Whenever load_data_to_db, called with rows,
\* reports a count, the count is the number of records the call added to the
\* table (size after minus size before), whatever the table held and however
\* many rows were submitted.
C11_ReportedCount ==
    (lastLoad.called /\ lastLoad.rows # <<>> /\ ~lastLoad.raised)
        => /\ lastLoad.rowcount = Len(table) - Len(lastLoad.before)
           /\ lastLoad.rowcount >= 0
           /\ lastLoad.rowcount <= Len(lastLoad.rows)

\* a call on a table that held one of its rows' keys: two rows submitted,
\* one reported and one record added
C11_Witness ==
    /\ lastLoad.called /\ ~lastLoad.raised
    /\ Len(lastLoad.rows) = 2
    /\ Conflicts(lastLoad.before, lastLoad.rows[1])
    /\ lastLoad.rowcount = 1
    /\ Len(table) = Len(lastLoad.before) + 1

(***************************************************************************)
(* Properties of the end of an invocation.                                 *)
(***************************************************************************)
\* the invocation was ended by the store being out of reach
StoreFailed ==
    /\ pc = "aborted"
    /\ \/ \A s \in Symbols : outcome[s] = "pending"
       \/ \E s \in Symbols : outcome[s] = "OperationalError"

\* C12: store unavailability is run-fatal, and nothing else but the missing
\* credential is.  An invocation that an exception ended was ended by the
\* store being out of reach; the missing credential ends it before it
\* starts.
C12_StoreFatalOnly ==
    /\ pc = "aborted" => StoreFailed
    /\ pc = "config_error" => ~API_KEY

(***************************************************************************)
(* Properties of the derived column.                                       *)
(***************************************************************************)
\* C13: derived field.  Every record whose prices are numbers and whose open
\* price is not zero holds (close - open) / open * 100 (here in hundredths
\* of a percent), every record with a zero open price holds a null in its
\* place, and a row with a zero open price that is loaded into the existing
\* table is stored without an exception.
C13_DerivedField ==
    /\ \A j \in 1..Len(table) :
          LET o == table[j].open_price
              c == table[j].close_price
          IN  /\ (o[1] = "real" /\ o[2] # 0 /\ c[1] = "real")
                    => table[j].daily_change_percentage =
                           Real(((c[2] - o[2]) * 10000) \div o[2])
              /\ o = Real(0)
                    => table[j].daily_change_percentage = <<"null", 0>>
    /\ (/\ lastLoad.called /\ tableExists
        /\ \A i \in 1..Len(lastLoad.rows) : Bindable(lastLoad.rows[i]))
          => /\ ~lastLoad.raised
             /\ \A i \in 1..Len(lastLoad.rows) :
                    lastLoad.rows[i].open = Real(0) =>
                        Conflicts(table, lastLoad.rows[i])

(***************************************************************************)
(* Properties of the snapshot directory.                                   *)
(***************************************************************************)
\* C14: fetch-mode memory.  Every call fetch_stock_data(symbol) requests
\* 'full' exactly when no snapshot of the symbol exists, which is exactly
\* when no earlier fetch of the symbol has succeeded, and 'compact'
\* otherwise, whatever snapshots other symbols have; a fetch that fails
\* writes no snapshot, and a fetch that succeeds leaves one.
C14_FetchMode ==
    [][(pc = "fetch" /\ lastFetch'.called /\ lastFetch' # lastFetch) =>
          LET s == SYMBOLS[idx]
          IN  /\ lastFetch'.symbol = s
              /\ lastFetch'.outputsize =
                     IF \A d \in Days : snapshots[<<s, d>>] = NoFile
                     THEN "full" ELSE "compact"
              /\ lastFetch'.outputsize =
                     IF s \in everSaved THEN "compact" ELSE "full"
              /\ lastFetch'.out # "saved"
                    => (snapshots' = snapshots /\ everSaved' = everSaved)
              /\ lastFetch'.out = "saved"
                    => (snapshots'[<<s, today>>] # NoFile /\ s \in everSaved')]_vars

\* on the second day the second symbol, of which no fetch had succeeded, is
\* fetched in full and saved, though the first symbol has a snapshot of the
\* first day and was fetched and loaded before it in this run
C14_Witness ==
    /\ lastFetch.called
    /\ runs = 2 /\ today = 2
    /\ lastFetch.symbol = SYMBOLS[2]
    /\ lastFetch.outputsize = "full"
    /\ lastFetch.out = "saved"
    /\ snapshots[<<SYMBOLS[1], 1>>] # NoFile
    /\ snapshots[<<SYMBOLS[2], 1>>] = NoFile
    /\ outcome[SYMBOLS[1]] = "loaded"

\* a response whose time series is present and empty
EmptySeries(resp) ==
    /\ resp.transport = "ok"
    /\ resp.body.object
    /\ ~resp.body.info
    /\ resp.body.hasTs
    /\ resp.body.ts = <<>>

\* C15: an empty time series is malformed.  A fetch whose response has the
\* time series present but empty ends in the caught ValidationError and
\* returns None, and no snapshot holds an empty time series.
C15_EmptySeriesMalformed ==
    /\ (lastFetch.called /\ EmptySeries(lastFetch.resp))
          => (lastFetch.out = "ValidationError" /\ raw_file_path = <<>>)
    /\ \A p \in Paths :
          snapshots[p].kind = "json" => snapshots[p].body.ts # <<>>

\* C16: snapshot frame.  No step removes a snapshot; the only step that
\* changes the directory is a fetch that succeeded, which writes the response
\* to the snapshot of its symbol and the day and leaves every other snapshot
\* as it was; a fetch that failed changes none.
C16_SnapshotFrame ==
    [][/\ \A p \in Paths : snapshots[p] # NoFile => snapshots'[p] # NoFile
       /\ snapshots' # snapshots
             => /\ pc = "fetch"
                /\ lastFetch'.out = "saved"
       /\ (/\ pc = "fetch"
           /\ lastFetch'.called /\ lastFetch' # lastFetch
           /\ lastFetch'.out = "saved")
             => /\ snapshots'[<<SYMBOLS[idx], today>>] =
                       File("json", lastFetch'.resp.body)
                /\ \A p \in Paths \ {<<SYMBOLS[idx], today>>} :
                       snapshots'[p] = snapshots[p]
       /\ (/\ pc = "fetch"
           /\ lastFetch'.called /\ lastFetch' # lastFetch
           /\ lastFetch'.out # "saved")
             => snapshots' = snapshots]_vars

\* on the second day the run has written the day's snapshot of the first
\* symbol, with another response than the one in its snapshot of the first
\* day, and has just created that of the second symbol, beside its snapshot
\* of the first day
C16_Witness ==
    /\ today = 2 /\ runs = 2
    /\ snapshots[<<SYMBOLS[1], 1>>].kind = "json"
    /\ snapshots[<<SYMBOLS[1], 2>>].kind = "json"
    /\ snapshots[<<SYMBOLS[1], 1>>] # snapshots[<<SYMBOLS[1], 2>>]
    /\ lastFetch.called
    /\ lastFetch.symbol = SYMBOLS[2]
    /\ lastFetch.out = "saved"
    /\ lastFetch.before = NoFile
    /\ snapshots[<<SYMBOLS[2], 1>>].kind = "json"

(***************************************************************************)
(* Properties of the loop over the symbols.                                *)
(***************************************************************************)
\* the orders in which the configured symbols can be listed
Orders ==
    {o \in [1..Len(SYMBOLS) -> Symbols] :
        \A i, j \in 1..Len(SYMBOLS) : o[i] = o[j] => i = j}

Ended(how, db) == [ended |-> how, db |-> db]

\* run_etl_pipeline() as a function: the loop of lines 205-209 over `order`
\* on the set-up database db, when the request for a symbol is answered with
\* answers[symbol], the transform of a symbol is stamped stamps[symbol] and
\* the installed pandas raises `cast` for an infinite volume
RECURSIVE run_etl_pipeline(_, _, _, _, _)
run_etl_pipeline(order, answers, db, stamps, cast) ==
    IF order = <<>> THEN Ended("done", db)
    ELSE LET symbol == Head(order)
             out == FetchOutcome(answers[symbol])
             frame == transform_data(File("json", answers[symbol].body),
                                     symbol, stamps[symbol], cast)
             res == load_data_to_db(db, TRUE, frame.rows)
         IN  IF out \in FetchRaises THEN Ended("aborted", db)
             ELSE IF out # "saved"
                  THEN run_etl_pipeline(Tail(order), answers, db, stamps,
                                        cast)
             ELSE IF frame.raised THEN Ended("aborted", db)
             ELSE IF res.raised THEN Ended("aborted", res.db)
             ELSE run_etl_pipeline(Tail(order), answers, res.db, stamps,
                                   cast)

\* the records of a table, without the surrogate id and without the time of
\* the transform
Content(t) ==
    {[t[i] EXCEPT !.id = 0, !.extraction_timestamp = 0] : i \in 1..Len(t)}

\* the first invocation, on the empty store and a mock API, has ended
FirstRunEnded ==
    /\ api.fixed
    /\ runs = 1 /\ directs = 0
    /\ pc \in {"done", "aborted"}

\* C17: symbol-order independence.  When the first invocation, on fixed
\* per-symbol responses, has ended, the table holds what a run over the
\* symbols in any other order would have stored, and for each symbol what a
\* run over that symbol alone would have stored.
C17_OrderIndependence ==
    FirstRunEnded =>
        /\ \A order \in Orders, cast \in Int64CastRaises :
              Content(table) =
                  Content(run_etl_pipeline(order, api.resp, Database(<<>>, 0),
                                           [s \in Symbols |-> clock],
                                           cast).db.table)
        /\ \A s \in Symbols, cast \in Int64CastRaises :
              {r \in Content(table) : r.symbol = s} =
                  Content(run_etl_pipeline(<<s>>, api.resp, Database(<<>>, 0),
                                           [t \in Symbols |-> clock],
                                           cast).db.table)

(***************************************************************************)
(* Properties of the store over the invocations.                           *)
(***************************************************************************)
\* the (symbol, date) keys of the records of a table
StoredKeys(t) == {<<t[i].symbol, t[i].date>> : i \in 1..Len(t)}

\* C18: no validated row is lost.  Whenever an invocation is done and no
\* invocation so far was ended by an exception, the table has a record for
\* every (symbol, date) of every response that was validated and saved; and
\* no step takes a key out of the table.
C18_NoValidatedRowLost ==
    [][/\ (pc' = "done" /\ ~everAborted')
             => validated' \subseteq StoredKeys(table')
       /\ StoredKeys(table) \subseteq StoredKeys(table')]_vars

\* the second invocation, on the second day, is done and no invocation was
\* ended by an exception: the first symbol's response of the day had a date
\* its response of the first day had not, the second symbol's fetch failed
\* after an earlier one had been saved, and every date of every saved
\* response is in the table
C18_Witness ==
    /\ pc = "done" /\ runs = 2 /\ today = 2
    /\ ~everAborted
    /\ snapshots[<<SYMBOLS[1], 1>>] = File("json", BodyOneDay)
    /\ snapshots[<<SYMBOLS[1], 2>>] = File("json", BodyTwoDay)
    /\ <<SYMBOLS[2], "2024-01-03">> \in validated
    /\ outcome[SYMBOLS[2]] = "RequestException"
    /\ validated \subseteq StoredKeys(table)
    /\ Cardinality(validated) >= 4

====
